---- MODULE Spec2Model ----
(***************************************************************************)
(* Model of the led-sectional core: the colour resolution policy, the      *)
(* configuration's airport list, the LED state buffer with its lightning   *)
(* overlay, and the update pipeline that turns METAR reports into colours. *)
(*                                                                         *)
(* Rust Option<T> values are modelled as sequences: None is <<>> and       *)
(* Some(v) is <<v>>.  Free-text strings that the code searches (wx_string) *)
(* are sequences of one-character strings; strings that the code only      *)
(* compares for equality (airport codes, flight categories) are strings.   *)
(* LED indices are 0-based as in the source; slot i is leds[i + 1].        *)
(***************************************************************************)
EXTENDS Integers, Sequences, FiniteSets, TLC

VARIABLES
    leds,               \* LedState.leds: sequence of colours
    brightness,         \* LedState.brightness: u8
    lightning_indices,  \* LedState.lightning_indices: sequence of indices
    lightning_saved,    \* LedState.lightning_saved: sequence of <<index, colour>>
    config,             \* the loaded Config (airports and settings), immutable
    call,               \* the last operation invoked, its arguments and result
    scenario,           \* progress of the select / write / flash / restore sequence
    pc,                 \* position of run_main_loop within its tick
    elapsed,            \* last_fetch.elapsed(), in milliseconds
    hw,                 \* the buffer last written to the LED strip, if any
    attempt             \* outcome of the last fetch attempt and the time since it

loopvars == <<pc, elapsed, hw, attempt>>

vars == <<leds, brightness, lightning_indices, lightning_saved, config, call, scenario,
          pc, elapsed, hw, attempt>>

----------------------------------------------------------------------------
(* Bounds of the model *)

MaxLeds == 2
MaxAirports == 2
MaxWind == 3
MaxIndices == 2

----------------------------------------------------------------------------
(* Option and integer helpers *)

None == <<>>

Some(v) == <<v>>

unwrap_or(opt, d) == IF opt = None THEN d ELSE opt[1]

max(a, b) == IF b > a THEN b ELSE a

U8Max == 255

U16Modulus == 65536

U8Modulus == 256

----------------------------------------------------------------------------
(* Colours *)

Color(r, g, b) == [r |-> r, g |-> g, b |-> b]

COLOR_VFR == Color(0, 255, 0)

COLOR_MVFR == Color(0, 0, 255)

COLOR_IFR == Color(255, 0, 0)

COLOR_LIFR == Color(255, 0, 255)

COLOR_WIND == Color(255, 255, 0)

COLOR_UNKNOWN == Color(0, 0, 0)

COLOR_LIGHTNING == Color(255, 255, 255)

COLOR_CONNECTING == Color(255, 165, 0)

COLOR_CONNECTED == Color(128, 0, 128)

COLOR_FETCH_ERROR == Color(0, 255, 255)

----------------------------------------------------------------------------
(* Colour resolution policy *)

\* max_wind > wind_threshold with `>=`: the off-by-one slip
is_windy_inclusive(wind_speed, wind_gust, wind_threshold) ==
    max(unwrap_or(wind_speed, 0), unwrap_or(wind_gust, 0)) >= wind_threshold

is_windy(wind_speed, wind_gust, wind_threshold) ==
    max(unwrap_or(wind_speed, 0), unwrap_or(wind_gust, 0)) > wind_threshold

\* the wind guard on the wrong arm: it also overrides MVFR
flight_category_color_wind_any(category, wind_speed, wind_gust, wind_threshold, do_winds) ==
    CASE category = Some("VFR")
           /\ is_windy(wind_speed, wind_gust, wind_threshold) /\ do_winds -> COLOR_WIND
      [] category = Some("MVFR")
           /\ is_windy(wind_speed, wind_gust, wind_threshold) /\ do_winds -> COLOR_WIND
      [] category = Some("VFR") -> COLOR_VFR
      [] category = Some("MVFR") -> COLOR_MVFR
      [] category = Some("IFR") -> COLOR_IFR
      [] category = Some("LIFR") -> COLOR_LIFR
      [] OTHER -> COLOR_UNKNOWN

flight_category_color(category, wind_speed, wind_gust, wind_threshold, do_winds) ==
    IF category = Some("VFR")
          /\ is_windy(wind_speed, wind_gust, wind_threshold) /\ do_winds
    THEN COLOR_WIND
    ELSE IF category = Some("VFR") THEN COLOR_VFR
    ELSE IF category = Some("MVFR") THEN COLOR_MVFR
    ELSE IF category = Some("IFR") THEN COLOR_IFR
    ELSE IF category = Some("LIFR") THEN COLOR_LIFR
    ELSE COLOR_UNKNOWN

special_code_color(code) ==
    IF code = "VFR" THEN Some(COLOR_VFR)
    ELSE IF code = "MVFR" THEN Some(COLOR_MVFR)
    ELSE IF code = "IFR" THEN Some(COLOR_IFR)
    ELSE IF code = "LIFR" THEN Some(COLOR_LIFR)
    ELSE IF code = "WVFR" THEN Some(COLOR_WIND)
    ELSE IF code = "LTNG" THEN Some(COLOR_VFR)
    ELSE IF code = "NULL" THEN Some(COLOR_UNKNOWN)
    ELSE None

----------------------------------------------------------------------------
(* Configuration model *)

SPECIAL_CODES == <<"NULL", "VFR", "MVFR", "IFR", "LIFR", "WVFR", "LTNG", "WBNK">>

is_special_code(code) == \E k \in 1..Len(SPECIAL_CODES) : SPECIAL_CODES[k] = code

num_leds(airports) == Len(airports)

\* filtering on the colour table instead of on SPECIAL_CODES
RECURSIVE metar_airport_codes_by_color(_)
metar_airport_codes_by_color(airports) ==
    IF airports = <<>> THEN <<>>
    ELSE IF special_code_color(Head(airports)) # None
         THEN metar_airport_codes_by_color(Tail(airports))
         ELSE <<Head(airports)>> \o metar_airport_codes_by_color(Tail(airports))

RECURSIVE metar_airport_codes(_)
metar_airport_codes(airports) ==
    IF airports = <<>> THEN <<>>
    ELSE IF is_special_code(Head(airports))
         THEN metar_airport_codes(Tail(airports))
         ELSE <<Head(airports)>> \o metar_airport_codes(Tail(airports))

----------------------------------------------------------------------------
(* Weather report model *)

MetarReport(icao_id, flt_cat, wspd, wgst, wx_string) ==
    [icao_id |-> icao_id, flt_cat |-> flt_cat, wspd |-> wspd, wgst |-> wgst,
     wx_string |-> wx_string]

\* str::contains: pat occurs in s as a contiguous run
contains(s, pat) ==
    \E k \in 1..(Len(s) - Len(pat) + 1) : SubSeq(s, k, k + Len(pat) - 1) = pat

has_thunderstorm(report) ==
    /\ report.wx_string # None
    /\ contains(report.wx_string[1], <<"T", "S">>)

\* HashMap::get on the report map (a function whose domain is the keys)
map_get(metars, code) == IF code \in DOMAIN metars THEN Some(metars[code]) ELSE None

----------------------------------------------------------------------------
(* LED state *)

LedState_new(n) == [i \in 1..n |-> COLOR_UNKNOWN]

\* LedState::set: the buffer after the call (unchanged on an out-of-bounds index)
set_leds(ls, index, color) ==
    IF index >= Len(ls) THEN ls ELSE [ls EXCEPT ![index + 1] = color]

\* the bounds test with `>`: the index one past the end is accepted
set_result_past_end(ls, index) == IF index > Len(ls) THEN "Err" ELSE "Ok"

set_result(ls, index) == IF index >= Len(ls) THEN "Err" ELSE "Ok"

set_all_leds(ls, color) == [i \in 1..Len(ls) |-> color]

\* LedState::get: the colour of a slot, or the out-of-bounds error
get(ls, index) == IF index < Len(ls) THEN Some(ls[index + 1]) ELSE None

\* the dimming applied to the stored colours when the brightness is set
set_brightness_in_place(ls, b) ==
    [leds |-> [i \in 1..Len(ls) |-> [r |-> (ls[i].r * b) \div 255,
                                      g |-> (ls[i].g * b) \div 255,
                                      b |-> (ls[i].b * b) \div 255]],
     brightness |-> b]

\* LedState::set_brightness: the buffer and the brightness after the call
set_brightness(ls, b) == [leds |-> ls, brightness |-> b]

\* a u8 multiplication instead of the widening to u16
scale_channel_u8(c, scale) == (((c * scale) % U8Modulus) \div 255) % U8Modulus

\* c as u16 * scale: the product in 16 unsigned bits
channel_product(c, scale) == (c * scale) % U16Modulus

\* the quotient by 254
channel_quotient_by_254(c, scale) == channel_product(c, scale) \div 254

\* (c as u16 * scale) / 255
channel_quotient(c, scale) == channel_product(c, scale) \div 255

\* ((c as u16 * scale) / 255) as u8: the cast keeps the low 8 bits
scale_channel(c, scale) == channel_quotient(c, scale) % U8Modulus

brightness_scaled_buffer(ls, b) ==
    [i \in 1..Len(ls) |-> [r |-> scale_channel(ls[i].r, b),
                           g |-> scale_channel(ls[i].g, b),
                           b |-> scale_channel(ls[i].b, b)]]

\* the snapshot filter_map: one (index, colour) pair per in-bounds index
RECURSIVE snapshot(_, _)
snapshot(ls, indices) ==
    IF indices = <<>> THEN <<>>
    ELSE IF Head(indices) < Len(ls)
         THEN <<<<Head(indices), ls[Head(indices) + 1]>>>> \o snapshot(ls, Tail(indices))
         ELSE snapshot(ls, Tail(indices))

\* the flash loop: every in-bounds listed index becomes COLOR_LIGHTNING
RECURSIVE flash(_, _)
flash(ls, indices) ==
    IF indices = <<>> THEN ls
    ELSE flash(IF Head(indices) < Len(ls)
               THEN [ls EXCEPT ![Head(indices) + 1] = COLOR_LIGHTNING]
               ELSE ls,
               Tail(indices))

\* the snapshot taken after the flash loop instead of before it
apply_lightning_flash_saved_late(ls, indices) ==
    IF indices = <<>> THEN [ret |-> FALSE, leds |-> ls, saved |-> <<>>, keep |-> TRUE]
    ELSE [ret |-> TRUE, leds |-> flash(ls, indices),
          saved |-> snapshot(flash(ls, indices), indices), keep |-> FALSE]

\* the colours saved when the indices were selected kept: no new snapshot
apply_lightning_flash_no_resnapshot(ls, indices) ==
    IF indices = <<>> THEN [ret |-> FALSE, leds |-> ls, saved |-> <<>>, keep |-> TRUE]
    ELSE [ret |-> TRUE, leds |-> flash(ls, indices), saved |-> <<>>, keep |-> TRUE]

\* the early return dropped
apply_lightning_flash_always(ls, indices) ==
    [ret |-> TRUE, leds |-> flash(ls, indices),
     saved |-> snapshot(ls, indices), keep |-> FALSE]

\* LedState::apply_lightning_flash: the return value, the buffer and the
\* snapshot after the call; keep says the snapshot field is not assigned
apply_lightning_flash(ls, indices) ==
    IF indices = <<>> THEN [ret |-> FALSE, leds |-> ls, saved |-> <<>>, keep |-> TRUE]
    ELSE [ret |-> TRUE, leds |-> flash(ls, indices),
          saved |-> snapshot(ls, indices), keep |-> FALSE]

\* a return inside the loop: only the first saved entry is written back
restore_lightning_first_only(ls, saved) ==
    IF saved = <<>> THEN ls
    ELSE IF Head(saved)[1] < Len(ls)
         THEN [ls EXCEPT ![Head(saved)[1] + 1] = Head(saved)[2]]
         ELSE ls

RECURSIVE restore_lightning(_, _)
restore_lightning(ls, saved) ==
    IF saved = <<>> THEN ls
    ELSE restore_lightning(IF Head(saved)[1] < Len(ls)
                           THEN [ls EXCEPT ![Head(saved)[1] + 1] = Head(saved)[2]]
                           ELSE ls,
                           Tail(saved))

----------------------------------------------------------------------------
(* Update pipeline *)

\* the loop of update_leds_from_metars from airport index i on
RECURSIVE update_loop(_, _, _, _, _, _, _)
update_loop(ls, airports, metars, wind_threshold, do_winds, i, lightning) ==
    IF i >= Len(airports) \/ i >= Len(ls)
    THEN [leds |-> ls, lightning |-> lightning]
    ELSE LET code == airports[i + 1]
             special == special_code_color(code)
             metar == map_get(metars, code)
         IN  IF special # None
             THEN update_loop(set_leds(ls, i, special[1]), airports, metars,
                              wind_threshold, do_winds, i + 1,
                              IF code = "LTNG" THEN Append(lightning, i) ELSE lightning)
             ELSE IF metar # None
             THEN update_loop(set_leds(ls, i,
                                       flight_category_color(metar[1].flt_cat, metar[1].wspd,
                                                             metar[1].wgst, wind_threshold,
                                                             do_winds)),
                              airports, metars, wind_threshold, do_winds, i + 1,
                              IF has_thunderstorm(metar[1]) THEN Append(lightning, i)
                              ELSE lightning)
             ELSE update_loop(set_leds(ls, i, COLOR_UNKNOWN), airports, metars,
                              wind_threshold, do_winds, i + 1, lightning)

update_leds_from_metars(ls, airports, metars, wind_threshold, do_winds) ==
    update_loop(ls, airports, metars, wind_threshold, do_winds, 0, <<>>)

----------------------------------------------------------------------------
(* Inputs of the model *)

SeqsUpTo(S, n) == UNION {[1..k -> S] : k \in 0..n}

\* the eight special codes, two real airports, and strings that are neither
Codes == {"NULL", "VFR", "MVFR", "IFR", "LIFR", "WVFR", "LTNG", "WBNK",
          "KSFO", "KLAX", "vfr", ""}

Categories == {None, Some("VFR"), Some("MVFR"), Some("IFR"), Some("LIFR"),
               Some("GARBAGE"), Some("")}

Winds == {None} \cup {Some(w) : w \in 0..MaxWind}

\* the airport list of the configuration used by the tests
ExampleAirports == <<"LIFR", "IFR", "MVFR", "VFR", "WVFR", "KSFO", "KLAX", "NULL", "LTNG">>

\* codes of the short airport lists: special codes with and without a colour,
\* the lightning demo, and real airports with and without a report
AirportCodes == {"VFR", "NULL", "LTNG", "WBNK", "KSFO", "KLAX"}

AirportLists == SeqsUpTo(AirportCodes, MaxAirports) \cup {ExampleAirports}

Settings(brightness_, request_interval_secs, wind_threshold_kt, do_lightning, do_winds) ==
    [brightness |-> brightness_, request_interval_secs |-> request_interval_secs,
     wind_threshold_kt |-> wind_threshold_kt, do_lightning |-> do_lightning,
     do_winds |-> do_winds]

Config(settings, airports) == [settings |-> settings, airports |-> airports]

DefaultSettings == Settings(20, 900, 25, TRUE, TRUE)

DefaultConfig == Config(DefaultSettings, ExampleAirports)

\* wind thresholds on both sides of the reports' winds
WindThresholds == {25, 30}

Configs ==
    {Config(Settings(20, 900, t, TRUE, w), a) : t \in WindThresholds, w \in BOOLEAN, a \in AirportLists}

\* reports a fetch can return: windy VFR with no weather, a thunderstorm with
\* a gust at the lower threshold, and a report with every field null
Reports(code) ==
    {MetarReport(code, Some("VFR"), Some(30), None, None),
     MetarReport(code, Some("IFR"), Some(10), Some(25), Some(<<"-", "T", "S", "R", "A">>)),
     MetarReport(code, None, None, None, None)}

\* the codes a response is keyed by: a real airport and two special codes
ReportKeys == {"KSFO", "LTNG", "WBNK"}

MetarMaps ==
    UNION {{m \in [K -> UNION {Reports(k) : k \in K}] : \A k \in K : m[k].icao_id = k}
           : K \in SUBSET ReportKeys}

StatusColors == {COLOR_CONNECTING, COLOR_CONNECTED, COLOR_FETCH_ERROR}

Pending(op, args) == [op |-> op, args |-> args, ret |-> None]

Done(op, args, ret) == [op |-> op, args |-> args, ret |-> Some(ret)]

NoArgs == <<>>

NoScenario == [phase |-> "idle", base |-> <<>>]

\* the sequence after a write of set or set_all that leaves the buffer ls:
\* writes that follow a selection with no flash since are "changed"
AfterWrite(sc, ls) ==
    IF sc.phase \in {"selected", "changed"} THEN [phase |-> "changed", base |-> ls]
    ELSE NoScenario

\* no fetch attempted yet; wrote is the buffer the last attempt left
NoAttempt == [outcome |-> "none", since |-> 0, wrote |-> <<>>]

\* the control loop has not been entered
NotInLoop == pc = "none" /\ elapsed = 0 /\ hw = None /\ attempt = NoAttempt

----------------------------------------------------------------------------
(* SpecColor: the pure functions of the colour policy and of the           *)
(* configuration, each applied once to inputs drawn by Init.               *)

ColorCalls ==
    {Pending("flight_category_color",
             [category |-> c, wind_speed |-> s, wind_gust |-> g,
              wind_threshold |-> t, do_winds |-> w]) :
        c \in Categories, s \in Winds, g \in Winds, t \in 0..MaxWind, w \in BOOLEAN}
    \cup {Pending("special_code_color", [code |-> c]) : c \in Codes}

ConfigCalls == {Pending("metar_airport_codes", NoArgs), Pending("num_leds", NoArgs)}

InitColor ==
    /\ \/ config = DefaultConfig /\ call \in ColorCalls
       \/ config \in Configs /\ call \in ConfigCalls
    /\ leds = LedState_new(num_leds(config.airports))
    /\ brightness = config.settings.brightness
    /\ lightning_indices = <<>>
    /\ lightning_saved = <<>>
    /\ scenario = NoScenario
    /\ NotInLoop

CallFlightCategoryColor ==
    /\ call.op = "flight_category_color" /\ call.ret = None
    /\ call' = Done(call.op, call.args,
                    flight_category_color(call.args.category, call.args.wind_speed,
                                          call.args.wind_gust, call.args.wind_threshold,
                                          call.args.do_winds))
    /\ UNCHANGED <<leds, brightness, lightning_indices, lightning_saved, config, scenario, loopvars>>

CallSpecialCodeColor ==
    /\ call.op = "special_code_color" /\ call.ret = None
    /\ call' = Done(call.op, call.args, special_code_color(call.args.code))
    /\ UNCHANGED <<leds, brightness, lightning_indices, lightning_saved, config, scenario, loopvars>>

CallMetarAirportCodes ==
    /\ call.op = "metar_airport_codes" /\ call.ret = None
    /\ call' = Done(call.op, call.args, metar_airport_codes(config.airports))
    /\ UNCHANGED <<leds, brightness, lightning_indices, lightning_saved, config, scenario, loopvars>>

CallNumLeds ==
    /\ call.op = "num_leds" /\ call.ret = None
    /\ call' = Done(call.op, call.args, num_leds(config.airports))
    /\ UNCHANGED <<leds, brightness, lightning_indices, lightning_saved, config, scenario, loopvars>>

NextColor ==
    \/ CallFlightCategoryColor
    \/ CallSpecialCodeColor
    \/ CallMetarAirportCodes
    \/ CallNumLeds

SpecColor == InitColor /\ [][NextColor]_vars

----------------------------------------------------------------------------
(* Properties of the colour policy and of the configuration (SpecColor) *)

Returned(op) == call.op = op /\ call.ret # None

\* the eight special codes the specification recognises
RecognizedSpecialCodes == {"NULL", "VFR", "MVFR", "IFR", "LIFR", "WVFR", "LTNG", "WBNK"}

\* some present wind value lies strictly above the threshold
WindAbove(a) ==
    \E v \in {a.wind_speed, a.wind_gust} : v # None /\ v[1] > a.wind_threshold

\* C3: for category VFR, flight_category_color returns the WIND colour if and
\* only if winds are enabled and the larger of speed and gust (absent counts
\* as 0) is strictly above the threshold, and the VFR colour otherwise; a wind
\* equal to the threshold never gives WIND.
C3_VfrWindOverride ==
    (Returned("flight_category_color") /\ call.args.category = Some("VFR")) =>
        /\ call.ret[1] = IF call.args.do_winds /\ WindAbove(call.args)
                         THEN COLOR_WIND ELSE COLOR_VFR
        /\ (~ (\E v \in {call.args.wind_speed, call.args.wind_gust} :
                  v # None /\ v[1] > call.args.wind_threshold))
              => call.ret[1] # COLOR_WIND

C3_Witness ==
    /\ Returned("flight_category_color")
    /\ call.args.category = Some("VFR")
    /\ call.args.do_winds
    /\ call.args.wind_speed = Some(1)
    /\ call.args.wind_gust = Some(MaxWind)
    /\ call.args.wind_threshold = MaxWind - 1
    /\ call.ret[1] = COLOR_WIND

\* C4: for every category other than VFR the colour depends on the category
\* alone: MVFR, IFR and LIFR give their own colour and an absent or
\* unrecognized category gives UNKNOWN, whatever the wind inputs.
C4_NonVfrIgnoresWind ==
    (Returned("flight_category_color") /\ call.args.category # Some("VFR")) =>
        call.ret[1] = CASE call.args.category = Some("MVFR") -> COLOR_MVFR
                        [] call.args.category = Some("IFR") -> COLOR_IFR
                        [] call.args.category = Some("LIFR") -> COLOR_LIFR
                        [] OTHER -> COLOR_UNKNOWN

C4_Witness ==
    /\ Returned("flight_category_color")
    /\ call.args.category = Some("MVFR")
    /\ call.args.do_winds
    /\ call.args.wind_speed = Some(MaxWind)
    /\ call.args.wind_threshold = 0
    /\ call.ret[1] = COLOR_MVFR

\* C5: special_code_color returns a colour for each of the eight recognized
\* special codes, which are exactly the codes is_special_code accepts, and
\* returns absent for every other string.
C5_SpecialLookupTotal ==
    Returned("special_code_color") =>
        /\ (call.ret[1] # None) <=> (call.args.code \in RecognizedSpecialCodes)
        /\ (call.ret[1] # None) <=> is_special_code(call.args.code)

\* C7: metar_airport_codes returns the codes at the non-special positions of
\* the airport list, in order and with duplicates kept (the k-th result is the
\* code at the k-th non-special position); it is empty when every airport is
\* special, and num_leds is the length of the airport list.
C7_MetarCodesAreRealSubsequence ==
    /\ Returned("metar_airport_codes") =>
          LET a == config.airports
              r == call.ret[1]
              real == {i \in 1..Len(a) : a[i] \notin RecognizedSpecialCodes}
          IN  /\ Len(r) = Cardinality(real)
              /\ \A i \in real : r[Cardinality({j \in real : j <= i})] = a[i]
              /\ (real = {}) => (r = <<>>)
    /\ Returned("num_leds") => call.ret[1] = Len(config.airports)

C7_Witness ==
    /\ Returned("metar_airport_codes")
    /\ config.airports = ExampleAirports
    /\ call.ret[1] = <<"KSFO", "KLAX">>

----------------------------------------------------------------------------
(* SpecUpdate: a configuration is loaded, the buffer is created and filled *)
(* with a status colour as at start-up, and every fetch cycle runs the     *)
(* update pipeline on the report map of that cycle.                        *)

InitUpdate ==
    /\ config \in Configs
    /\ \E n \in (0..MaxLeds) \cup {num_leds(config.airports)} : leds = LedState_new(n)
    /\ brightness = config.settings.brightness
    /\ lightning_indices = <<>>
    /\ lightning_saved = <<>>
    /\ call = Pending("new", NoArgs)
    /\ scenario = NoScenario
    /\ NotInLoop

SetAll(color) ==
    /\ leds' = set_all_leds(leds, color)
    /\ call' = Done("set_all", [color |-> color], "unit")
    /\ scenario' = AfterWrite(scenario, set_all_leds(leds, color))
    /\ UNCHANGED <<brightness, lightning_indices, lightning_saved, config, loopvars>>

UpdateLedsFromMetars(metars) ==
    LET r == update_leds_from_metars(leds, config.airports, metars,
                                     config.settings.wind_threshold_kt,
                                     config.settings.do_winds)
    IN  /\ leds' = r.leds
        /\ call' = Done("update_leds_from_metars", [metars |-> metars], r.lightning)
        /\ UNCHANGED <<brightness, lightning_indices, lightning_saved, config, scenario, loopvars>>

NextUpdate ==
    \/ \E color \in StatusColors : SetAll(color)
    \/ \E metars \in MetarMaps : UpdateLedsFromMetars(metars)

SpecUpdate == InitUpdate /\ [][NextUpdate]_vars

----------------------------------------------------------------------------
(* Properties of the update pipeline (SpecUpdate) *)

Range(s) == {s[k] : k \in 1..Len(s)}

Min(a, b) == IF a < b THEN a ELSE b

\* the fixed legend colour of a special code; for WBNK (blank) the colour the
\* display shows when no report is keyed by it
LegendColor(code) ==
    CASE code = "NULL" -> COLOR_UNKNOWN
      [] code = "VFR" -> COLOR_VFR
      [] code = "MVFR" -> COLOR_MVFR
      [] code = "IFR" -> COLOR_IFR
      [] code = "LIFR" -> COLOR_LIFR
      [] code = "WVFR" -> COLOR_WIND
      [] code = "LTNG" -> COLOR_VFR
      [] code = "WBNK" -> COLOR_UNKNOWN

\* the colour the claim gives slot i for airports a and report map m
ExpectedColor(a, m, i) ==
    IF a[i + 1] \in RecognizedSpecialCodes THEN LegendColor(a[i + 1])
    ELSE IF a[i + 1] \in DOMAIN m
         THEN flight_category_color(m[a[i + 1]].flt_cat, m[a[i + 1]].wspd, m[a[i + 1]].wgst,
                                    config.settings.wind_threshold_kt,
                                    config.settings.do_winds)
         ELSE COLOR_UNKNOWN

ExampleColors ==
    <<COLOR_LIFR, COLOR_IFR, COLOR_MVFR, COLOR_VFR, COLOR_WIND, COLOR_WIND,
      COLOR_UNKNOWN, COLOR_UNKNOWN, COLOR_VFR>>

\* C1: after update_leds_from_metars every slot below min(len(airports),
\* num_leds) holds the legend colour of its special code, else the
\* flight_category_color of the code's report, else UNKNOWN; the slots from
\* len(airports) on are unchanged; and the example airport list with KSFO
\* VFR at 30 kt over a threshold of 25 and no KLAX report gives the example
\* colours.
C1_UpdateWritesPolicyColors ==
    [][(call'.op = "update_leds_from_metars") =>
          LET a == config.airports
              m == call'.args.metars
          IN  /\ Len(leds') = Len(leds)
              /\ \A i \in 0..(Len(leds) - 1) :
                    IF i < Len(a) THEN leds'[i + 1] = ExpectedColor(a, m, i)
                    ELSE leds'[i + 1] = leds[i + 1]
              /\ (/\ a = ExampleAirports
                  /\ Len(leds) = Len(a)
                  /\ "KSFO" \in DOMAIN m
                  /\ m["KSFO"].flt_cat = Some("VFR")
                  /\ m["KSFO"].wspd = Some(30)
                  /\ config.settings.wind_threshold_kt = 25
                  /\ config.settings.do_winds)
                 => leds' = ExampleColors]_vars

\* C2: the returned lightning list contains slot i exactly when the slot's
\* code is LTNG, or the code is not a special code and its report in the map
\* has a thunderstorm signature.
C2_LightningListExact ==
    Returned("update_leds_from_metars") =>
        LET a == config.airports
            m == call.args.metars
            r == call.ret[1]
        IN  /\ Range(r) \subseteq 0..(Min(Len(a), Len(leds)) - 1)
            /\ \A i \in 0..(Min(Len(a), Len(leds)) - 1) :
                  (i \in Range(r)) <=>
                      \/ a[i + 1] = "LTNG"
                      \/ /\ a[i + 1] \notin RecognizedSpecialCodes
                         /\ a[i + 1] \in DOMAIN m
                         /\ has_thunderstorm(m[a[i + 1]])

\* C6: for every slot whose code is one of the eight special codes, the
\* colour written and the slot's membership in the lightning list are the
\* same under every other report map, also one keyed by that special code.
C6_SpecialSlotsIgnoreReports ==
    [][(call'.op = "update_leds_from_metars") =>
          \A m2 \in MetarMaps :
              LET a == config.airports
                  r2 == update_leds_from_metars(leds, a, m2,
                                                config.settings.wind_threshold_kt,
                                                config.settings.do_winds)
              IN  \A i \in 0..(Min(Len(a), Len(leds)) - 1) :
                      (a[i + 1] \in RecognizedSpecialCodes) =>
                          /\ leds'[i + 1] = r2.leds[i + 1]
                          /\ (i \in Range(call'.ret[1])) <=> (i \in Range(r2.lightning))]_vars

----------------------------------------------------------------------------
(* SpecScale: a one-LED buffer created with any brightness, one colour     *)
(* stored, and the brightness-scaled view read back.                       *)

\* colours whose three channels each take every value of 0..255
ScaleColor(c) == Color(c, U8Max - c, (c + 128) % U8Modulus)

InitScale ==
    /\ config = DefaultConfig
    /\ leds = LedState_new(1)
    /\ brightness \in 0..U8Max
    /\ lightning_indices = <<>>
    /\ lightning_saved = <<>>
    /\ call = Pending("new", NoArgs)
    /\ scenario = NoScenario
    /\ NotInLoop

Set(index, color) ==
    /\ leds' = set_leds(leds, index, color)
    /\ call' = Done("set", [index |-> index, color |-> color], set_result(leds, index))
    /\ scenario' = AfterWrite(scenario, set_leds(leds, index, color))
    /\ UNCHANGED <<brightness, lightning_indices, lightning_saved, config, loopvars>>

SetChannels ==
    /\ call.op = "new"
    /\ \E c \in 0..U8Max : Set(0, ScaleColor(c))

BrightnessScaledBuffer ==
    /\ call' = Done("brightness_scaled_buffer", NoArgs,
                    brightness_scaled_buffer(leds, brightness))
    /\ UNCHANGED <<leds, brightness, lightning_indices, lightning_saved, config, scenario, loopvars>>

NextScale ==
    \/ SetChannels
    \/ BrightnessScaledBuffer

SpecScale == InitScale /\ [][NextScale]_vars

\* q is the integer quotient of c * b by 255, rounded down
IsFloorOfScaled(q, c, b) == 255 * q <= c * b /\ c * b < 255 * (q + 1)

\* C8: every channel of the brightness-scaled view is floor(c * b / 255) of
\* the stored channel c and the brightness b; with b = 0 it is 0 and with
\* b = 255 it is c.
C8_ScaledIsFloor ==
    Returned("brightness_scaled_buffer") =>
        /\ Len(call.ret[1]) = Len(leds)
        /\ \A i \in 1..Len(leds) :
              /\ IsFloorOfScaled(call.ret[1][i].r, leds[i].r, brightness)
              /\ IsFloorOfScaled(call.ret[1][i].g, leds[i].g, brightness)
              /\ IsFloorOfScaled(call.ret[1][i].b, leds[i].b, brightness)
              /\ (brightness = 0) => (call.ret[1][i] = Color(0, 0, 0))
              /\ (brightness = U8Max) => (call.ret[1][i] = leds[i])

C8_Witness ==
    /\ Returned("brightness_scaled_buffer")
    /\ brightness = 128
    /\ leds = <<Color(255, 0, 127)>>
    /\ call.ret[1] = <<Color(128, 0, 63)>>

\* the channel c of the stored colour is scaled without a wrap of the 16-bit
\* product or a loss in the cast to 8 bits, and q is what the view holds
ScaledExactly(q, c, b) ==
    /\ c * b <= U16Modulus - 1
    /\ channel_product(c, b) = c * b
    /\ channel_quotient(c, b) <= U8Max
    /\ q = channel_quotient(c, b)
    /\ q = (c * b) \div 255

\* C32: for every channel and brightness in 0..255 the 16-bit product
\* channel * brightness is at most 65535, so it does not wrap, and its
\* quotient by 255 is at most 255, so the cast to 8 bits loses nothing.
C32_ProductAndQuotientFit ==
    Returned("brightness_scaled_buffer") =>
        \A i \in 1..Len(leds) :
            /\ ScaledExactly(call.ret[1][i].r, leds[i].r, brightness)
            /\ ScaledExactly(call.ret[1][i].g, leds[i].g, brightness)
            /\ ScaledExactly(call.ret[1][i].b, leds[i].b, brightness)

C32_Witness ==
    /\ Returned("brightness_scaled_buffer")
    /\ brightness = U8Max
    /\ leds[1].r = U8Max
    /\ channel_product(leds[1].r, brightness) = U8Max * U8Max
    /\ call.ret[1][1].r = U8Max

----------------------------------------------------------------------------
(* Spec: the LED state driven through its public operations in any order. *)

\* the colour written by set (set_all and new give two more), and index lists
\* with repeated and out-of-bounds indices
SetColors == {COLOR_IFR}

IndexLists == SeqsUpTo(0..MaxLeds, MaxIndices)

Init ==
    /\ config = DefaultConfig
    /\ \E n \in 0..MaxLeds : leds = LedState_new(n)
    /\ brightness = config.settings.brightness
    /\ lightning_indices = <<>>
    /\ lightning_saved = <<>>
    /\ call = Pending("new", NoArgs)
    /\ scenario = NoScenario
    /\ NotInLoop

SetLightningIndices(indices) ==
    /\ lightning_saved' = snapshot(leds, indices)
    /\ lightning_indices' = indices
    /\ call' = Done("set_lightning_indices", [indices |-> indices], "unit")
    /\ scenario' = [phase |-> "selected", base |-> leds]
    /\ UNCHANGED <<leds, brightness, config, loopvars>>

ApplyLightningFlash ==
    LET r == apply_lightning_flash(leds, lightning_indices)
    IN  /\ leds' = r.leds
        /\ lightning_saved' = IF r.keep THEN lightning_saved ELSE r.saved
        /\ call' = Done("apply_lightning_flash", NoArgs, r.ret)
        /\ scenario' = IF scenario.phase = "selected"
                       THEN [scenario EXCEPT !.phase = "flashed"]
                       ELSE IF scenario.phase \in {"flashed", "reflashed"}
                       THEN [scenario EXCEPT !.phase = "reflashed"]
                       ELSE NoScenario
        /\ UNCHANGED <<brightness, lightning_indices, config, loopvars>>

RestoreLightning ==
    /\ leds' = restore_lightning(leds, lightning_saved)
    /\ call' = Done("restore_lightning", NoArgs, "unit")
    /\ scenario' = IF scenario.phase = "flashed"
                   THEN [scenario EXCEPT !.phase = "restored"]
                   ELSE IF scenario.phase = "reflashed"
                   THEN [scenario EXCEPT !.phase = "rerestored"]
                   ELSE NoScenario
    /\ UNCHANGED <<brightness, lightning_indices, lightning_saved, config, loopvars>>

Next ==
    \/ \E index \in 0..MaxLeds, color \in SetColors : Set(index, color)
    \/ SetAll(COLOR_FETCH_ERROR)
    \/ \E indices \in IndexLists : SetLightningIndices(indices)
    \/ ApplyLightningFlash
    \/ RestoreLightning

Spec == Init /\ [][Next]_vars

----------------------------------------------------------------------------
(* SpecView: the brightness and the brightness-scaled view used between    *)
(* writes to the buffer and to the lightning overlay, in any order.        *)

\* brightness values on both sides of the configured 20
ViewBrightness == {0, 128}

SetBrightness(b) ==
    LET r == set_brightness(leds, b)
    IN  /\ leds' = r.leds
        /\ brightness' = r.brightness
        /\ call' = Done("set_brightness", [brightness |-> b], "unit")
        /\ UNCHANGED <<lightning_indices, lightning_saved, config, scenario, loopvars>>

NextView ==
    \/ \E index \in 0..MaxLeds : Set(index, COLOR_WIND)
    \/ \E indices \in IndexLists : SetLightningIndices(indices)
    \/ ApplyLightningFlash
    \/ \E b \in ViewBrightness : SetBrightness(b)
    \/ BrightnessScaledBuffer

SpecView == Init /\ [][NextView]_vars

\* C25: set_brightness and brightness_scaled_buffer change no stored colour,
\* nor the lightning indices, nor the saved snapshot: get(i) is the same
\* before and after for every i; set_brightness sets the brightness, and the
\* view is the floor-scaled copy of the colours and brightness stored when it
\* is read.
C25_ViewLeavesStateAlone ==
    [][(call'.op \in {"set_brightness", "brightness_scaled_buffer"}) =>
          /\ \A i \in 0..MaxLeds : get(leds', i) = get(leds, i)
          /\ Len(leds') = Len(leds)
          /\ lightning_indices' = lightning_indices
          /\ lightning_saved' = lightning_saved
          /\ (call'.op = "set_brightness") => (brightness' = call'.args.brightness)
          /\ (call'.op = "brightness_scaled_buffer") =>
                /\ brightness' = brightness
                /\ Len(call'.ret[1]) = Len(leds')
                /\ \A i \in 1..Len(leds') :
                      /\ IsFloorOfScaled(call'.ret[1][i].r, leds'[i].r, brightness')
                      /\ IsFloorOfScaled(call'.ret[1][i].g, leds'[i].g, brightness')
                      /\ IsFloorOfScaled(call'.ret[1][i].b, leds'[i].b, brightness')]_vars

C25_Witness ==
    /\ Returned("brightness_scaled_buffer")
    /\ brightness = 128
    /\ Len(leds) = MaxLeds
    /\ leds[1] = COLOR_LIGHTNING
    /\ leds[2] = COLOR_WIND
    /\ lightning_indices = <<0>>
    /\ lightning_saved = <<<<0, COLOR_UNKNOWN>>>>
    /\ call.ret[1][1] = Color(128, 128, 128)
    /\ call.ret[1][2] = Color(128, 128, 0)

----------------------------------------------------------------------------
(* Properties of the lightning overlay (Spec) *)

IndicesInBounds == \A k \in 1..Len(lightning_indices) : lightning_indices[k] < Len(leds)

\* C9: with in-bounds indices, set_lightning_indices then
\* apply_lightning_flash then restore_lightning with nothing in between
\* leaves the buffer as it was when the indices were selected, and the slots
\* that are not listed keep their colour at every step.
C9_FlashRestoreRoundTrip ==
    (scenario.phase # "idle" /\ IndicesInBounds) =>
        /\ Len(leds) = Len(scenario.base)
        /\ (scenario.phase \in {"selected", "restored"}) => (leds = scenario.base)
        /\ \A i \in 0..(Len(leds) - 1) :
              (i \notin Range(lightning_indices)) => (leds[i + 1] = scenario.base[i + 1])

C9_Witness ==
    /\ scenario.phase = "restored"
    /\ call.op = "restore_lightning"
    /\ IndicesInBounds
    /\ Len(leds) = MaxLeds
    /\ lightning_indices = <<1, 0>>
    /\ lightning_saved = <<<<1, COLOR_FETCH_ERROR>>, <<0, COLOR_IFR>>>>
    /\ leds[1] = COLOR_IFR
    /\ leds[2] = COLOR_FETCH_ERROR

\* C10: with an empty lightning index list apply_lightning_flash returns
\* false and changes neither the buffer nor the saved snapshot.
C10_EmptyFlashIsNoOp ==
    [][(call'.op = "apply_lightning_flash" /\ lightning_indices = <<>>) =>
          /\ call'.ret = Some(FALSE)
          /\ leds' = leds
          /\ lightning_saved' = lightning_saved]_vars

C10_Witness ==
    /\ Returned("apply_lightning_flash")
    /\ call.ret[1] = FALSE
    /\ lightning_indices = <<>>
    /\ Len(leds) = MaxLeds
    /\ leds[1] = COLOR_IFR

\* the in-bounds indices of a list, in order
RECURSIVE InBounds(_, _)
InBounds(indices, n) ==
    IF indices = <<>> THEN <<>>
    ELSE IF Head(indices) < n THEN <<Head(indices)>> \o InBounds(Tail(indices), n)
    ELSE InBounds(Tail(indices), n)

\* C26: select, then one or more flashes with no restore between them, then
\* restore_lightning: every listed slot is back at the colour it had when it
\* was last not flashed, the colour at selection, and not at LIGHTNING.
C26_RepeatedFlashRestores ==
    (/\ scenario.phase \in {"restored", "rerestored"}
     /\ lightning_indices # <<>>
     /\ \A i \in 1..Len(scenario.base) : scenario.base[i] # COLOR_LIGHTNING)
        => \A k \in 1..Len(lightning_indices) :
               (lightning_indices[k] < Len(leds)) =>
                   /\ leds[lightning_indices[k] + 1] = scenario.base[lightning_indices[k] + 1]
                   /\ leds[lightning_indices[k] + 1] # COLOR_LIGHTNING

\* a flash step that flashed: the saved pairs are the in-bounds listed
\* indices, each with the colour its slot had just before the step
SavedAtFlash ==
    (call'.op = "apply_lightning_flash" /\ call'.ret = Some(TRUE)) =>
        /\ Len(lightning_saved') = Len(InBounds(lightning_indices, Len(leds)))
        /\ \A k \in 1..Len(lightning_saved') :
              /\ lightning_saved'[k][1] = InBounds(lightning_indices, Len(leds))[k]
              /\ lightning_saved'[k][2] = leds[lightning_saved'[k][1] + 1]

\* C27: the saved colours are those of just before the most recent flash,
\* never those of the selection, so restore_lightning does not write
\* a colour captured by set_lightning_indices over a slot that set or
\* set_all changed after the selection.
C27_RestoreNeverWritesSelectionColours ==
    [][/\ SavedAtFlash
       /\ (scenario.phase = "changed" /\ call'.op = "restore_lightning") => (leds' = leds)]_vars

\* C28: out-of-bounds indices are dropped from the overlay: a flash has
\* returned true only if it set some listed slot to LIGHTNING, and with a
\* list of out-of-bounds indices only it has returned false.
C28_OutOfBoundsIndicesDropped ==
    Returned("apply_lightning_flash") =>
        /\ (call.ret[1] = TRUE) =>
              \E k \in 1..Len(lightning_indices) :
                  /\ lightning_indices[k] < Len(leds)
                  /\ leds[lightning_indices[k] + 1] = COLOR_LIGHTNING
        /\ (InBounds(lightning_indices, Len(leds)) = <<>>) => (call.ret[1] = FALSE)

----------------------------------------------------------------------------
(* Properties of set (Spec) *)

\* C11: set(i, color) on a buffer of length n returns the out-of-bounds
\* error and leaves every slot unchanged when i >= n; when i < n it succeeds,
\* slot i holds color and every other slot is unchanged; in both cases the
\* brightness and the lightning overlay are unchanged.
C11_SetBoundsAndFrame ==
    [][(call'.op = "set") =>
          /\ Len(leds') = Len(leds)
          /\ IF call'.args.index >= Len(leds)
             THEN call'.ret = Some("Err") /\ leds' = leds
             ELSE /\ call'.ret = Some("Ok")
                  /\ leds'[call'.args.index + 1] = call'.args.color
                  /\ \A j \in 0..(Len(leds) - 1) :
                        (j # call'.args.index) => (leds'[j + 1] = leds[j + 1])
          /\ brightness' = brightness
          /\ lightning_indices' = lightning_indices
          /\ lightning_saved' = lightning_saved]_vars

C11_Witness ==
    /\ Returned("set")
    /\ call.args.index = Len(leds)
    /\ call.ret[1] = "Err"
    /\ Len(leds) = MaxLeds
    /\ leds[1] = COLOR_IFR
    /\ lightning_indices = <<0>>

----------------------------------------------------------------------------
(* Configuration validation *)

\* values above the range reduced by the upper bound instead of set to it
clamp_reduce(x, lo, hi) == IF x < lo THEN lo ELSE IF x > hi THEN x - hi ELSE x

\* Ord::clamp
clamp(x, lo, hi) == IF x < lo THEN lo ELSE IF x > hi THEN hi ELSE x

\* the wind threshold left as parsed
validate_interval_only(cfg) ==
    [cfg EXCEPT !.settings.request_interval_secs = clamp(@, 60, 3600)]

validate(cfg) ==
    [cfg EXCEPT !.settings.request_interval_secs = clamp(@, 60, 3600),
                !.settings.wind_threshold_kt = clamp(@, 0, 100)]

\* Config::from_toml on a document that parses to the Config parsed
from_toml(parsed) == validate(parsed)

----------------------------------------------------------------------------
(* Report index and fetch *)

\* HashMap::insert: the value of an existing key is replaced
map_insert(m, k, v) == [x \in (DOMAIN m) \cup {k} |-> IF x = k THEN v ELSE m[x]]

\* the first report of a code kept, as entry().or_insert would
RECURSIVE collect_first(_, _)
collect_first(reports, m) ==
    IF reports = <<>> THEN m
    ELSE collect_first(Tail(reports),
                       IF Head(reports).icao_id \in DOMAIN m THEN m
                       ELSE map_insert(m, Head(reports).icao_id, Head(reports)))

metars_by_icao_first_wins(reports) == collect_first(reports, <<>>)

\* collect() into a HashMap: the pairs are inserted in order
RECURSIVE collect(_, _)
collect(reports, m) ==
    IF reports = <<>> THEN m
    ELSE collect(Tail(reports), map_insert(m, Head(reports).icao_id, Head(reports)))

metars_by_icao(reports) == collect(reports, <<>>)

MaxReports == 2

\* reports of a response: the three reports of a real airport and a
\* thunderstorm keyed by a code that was not requested
ResponseReports ==
    Reports("KSFO")
    \cup {MetarReport("WBNK", Some("IFR"), None, None, Some(<<"T", "S">>))}

Responses == SeqsUpTo(ResponseReports, MaxReports)

\* a response body: text that deserializes to a report list (well_formed) or
\* does not; the reports are those the text spells out
Payload(well_formed, reports) == [well_formed |-> well_formed, reports |-> reports]

\* malformed bodies: an empty one, and a truncated one that still spells a report
MalformedPayloads ==
    {Payload(FALSE, <<>>),
     Payload(FALSE, <<MetarReport("KSFO", Some("VFR"), Some(30), None, None)>>)}

Payloads == {Payload(TRUE, r) : r \in Responses} \cup MalformedPayloads

\* the failures of the connection, the request, the status and the read
TransportErrors == {"Connection", "Request", "Response", "HttpStatus", "Read", "Utf8"}

\* what the network does to one request: a failure, or a body received
IoFailure(e) == [err |-> Some(e), body |-> None]

IoBody(payload) == [err |-> None, body |-> Some(payload)]

IoOutcomes == {IoFailure(e) : e \in TransportErrors} \cup {IoBody(p) : p \in Payloads}

\* the reports a malformed body spells out returned instead of the error
parse_metars_lenient(payload) == [ok |-> TRUE, reports |-> payload.reports]

\* parse_metars: serde_json::from_str of the whole body
parse_metars(payload) ==
    IF payload.well_formed THEN [ok |-> TRUE, reports |-> payload.reports]
    ELSE [ok |-> FALSE, reports |-> <<>>]

\* the results of fetch; io is the request performed, None when there was none
FetchOk(reports, io) == [ok |-> TRUE, reports |-> reports, err |-> None, io |-> io]

FetchErr(e, io) == [ok |-> FALSE, reports |-> <<>>, err |-> Some(e), io |-> io]

\* the request of MetarClient::fetch and the parse of its response
request(io) ==
    IF io.err # None THEN FetchErr(io.err[1], Some(io))
    ELSE LET parsed == parse_metars(io.body[1])
         IN  IF parsed.ok THEN FetchOk(parsed.reports, Some(io))
             ELSE FetchErr("Parse", Some(io))

\* the early return for an empty code list dropped
fetch_always_requests(airport_codes, io) == request(io)

\* MetarClient::fetch for a code list, when the network does io to a request
fetch(airport_codes, io) ==
    IF airport_codes = <<>> THEN FetchOk(<<>>, None) ELSE request(io)

----------------------------------------------------------------------------
(* Control loop *)

RETRY_MS == 60000

FLASH_HOLD_MS == 25

TICK_SLEEP_MS == 5000

fetch_interval(cfg) == cfg.settings.request_interval_secs * 1000

\* last_fetch = Instant::now(): no fetch before a full interval has passed
initial_elapsed_now(interval) == 0

\* last_fetch = Instant::now() - fetch_interval
initial_elapsed(interval) == interval

\* last_fetch = Instant::now() - fetch_interval + 60 s
elapsed_after_failure(interval) == interval - RETRY_MS

\* the comparison with `>`: a fetch exactly one interval later is not due
fetch_due_strict(e, interval) == e > interval

fetch_due(e, interval) == e >= interval

\* the indices installed before the update has run
on_fetch_ok_install_first(ls, cfg, reports) ==
    LET u == update_leds_from_metars(ls, cfg.airports, metars_by_icao(reports),
                                     cfg.settings.wind_threshold_kt, cfg.settings.do_winds)
    IN  [leds |-> u.leds, indices |-> u.lightning, saved |-> snapshot(ls, u.lightning)]

\* the Ok arm: index the reports, update the buffer, install the indices
on_fetch_ok(ls, cfg, reports) ==
    LET u == update_leds_from_metars(ls, cfg.airports, metars_by_icao(reports),
                                     cfg.settings.wind_threshold_kt, cfg.settings.do_winds)
    IN  [leds |-> u.leds, indices |-> u.lightning, saved |-> snapshot(u.leds, u.lightning)]

\* the Err arm: the whole buffer shows the fetch-error colour
on_fetch_err(ls) == set_all_leds(ls, COLOR_FETCH_ERROR)

\* the Err arm with a call of set_lightning_indices(Vec::new()) in it
on_fetch_err_overlay_cleared(indices, saved) == [indices |-> <<>>, saved |-> <<>>]

\* the Err arm calls set_all and nothing else of LedState: the installed
\* index list and its snapshot are those of before the fetch
on_fetch_err_overlay(indices, saved) == [indices |-> indices, saved |-> saved]

\* the operands of && exchanged: the flash runs before do_lightning is read
lightning_pulse_flash_first(do_lightning, ls, indices) ==
    LET r == apply_lightning_flash(ls, indices)
    IN  [r EXCEPT !.ret = r.ret /\ do_lightning]

\* config.settings.do_lightning && led_state.apply_lightning_flash(): the
\* flash is not called when do_lightning is false
lightning_pulse(do_lightning, ls, indices) ==
    IF do_lightning THEN apply_lightning_flash(ls, indices)
    ELSE [ret |-> FALSE, leds |-> ls, saved |-> <<>>, keep |-> TRUE]

\* the sleeps return without the clock having moved
Advance_frozen(d) == UNCHANGED <<elapsed, attempt>>

\* thread::sleep(d): the time since last_fetch grows by d
Advance(d) ==
    /\ elapsed' = elapsed + d
    /\ attempt' = [attempt EXCEPT !.since = @ + d]

\* raw intervals of the configuration document: below the range, just above
\* the retry delay, and a few minutes
LoopRawIntervals == {10, 65, 300}

LoopAirportCodes == {"KSFO", "LTNG", "WBNK"}

LoopAirportLists == SeqsUpTo(LoopAirportCodes, MaxAirports)

LoopConfigs ==
    {from_toml(Config(Settings(20, i, 25, l, TRUE), a)) :
        i \in LoopRawIntervals, l \in BOOLEAN, a \in LoopAirportLists}

InitLoop ==
    /\ config \in LoopConfigs
    /\ \E color \in {COLOR_CONNECTED, COLOR_FETCH_ERROR} :
          leds = set_all_leds(LedState_new(num_leds(config.airports)), color)
    /\ brightness = config.settings.brightness
    /\ lightning_indices = <<>>
    /\ lightning_saved = <<>>
    /\ call = Pending("run_main_loop", NoArgs)
    /\ scenario = NoScenario
    /\ pc = "check"
    /\ elapsed = initial_elapsed(fetch_interval(config))
    /\ hw = None
    /\ attempt = NoAttempt

FetchSucceeds(io) ==
    /\ pc = "check"
    /\ fetch_due(elapsed, fetch_interval(config))
    /\ LET res == fetch(metar_airport_codes(config.airports), io)
           r == on_fetch_ok(leds, config, res.reports)
       IN  /\ res.ok
           /\ leds' = r.leds
           /\ lightning_indices' = r.indices
           /\ lightning_saved' = r.saved
           /\ attempt' = [outcome |-> "ok", since |-> 0, wrote |-> r.leds]
           /\ call' = Done("fetch", [reports |-> res.reports, err |-> res.err, io |-> res.io],
                           "Ok")
    /\ elapsed' = 0
    /\ pc' = "lightning"
    /\ UNCHANGED <<brightness, config, scenario, hw>>

FetchFails(io) ==
    /\ pc = "check"
    /\ fetch_due(elapsed, fetch_interval(config))
    /\ LET res == fetch(metar_airport_codes(config.airports), io)
       IN  /\ ~ res.ok
           /\ call' = Done("fetch", [reports |-> res.reports, err |-> res.err, io |-> res.io],
                           "Err")
    /\ leds' = on_fetch_err(leds)
    /\ lightning_indices' = on_fetch_err_overlay(lightning_indices, lightning_saved).indices
    /\ lightning_saved' = on_fetch_err_overlay(lightning_indices, lightning_saved).saved
    /\ elapsed' = elapsed_after_failure(fetch_interval(config))
    /\ attempt' = [outcome |-> "err", since |-> 0, wrote |-> on_fetch_err(leds)]
    /\ pc' = "lightning"
    /\ UNCHANGED <<brightness, config, scenario, hw>>

FetchNotDue ==
    /\ pc = "check"
    /\ ~ fetch_due(elapsed, fetch_interval(config))
    /\ call' = Done("fetch_not_due", NoArgs, "unit")
    /\ pc' = "lightning"
    /\ UNCHANGED <<leds, brightness, lightning_indices, lightning_saved, config, scenario,
                   elapsed, hw, attempt>>

LoopFlash ==
    /\ pc = "lightning"
    /\ LET r == lightning_pulse(config.settings.do_lightning, leds, lightning_indices)
       IN  /\ r.ret
           /\ leds' = r.leds
           /\ lightning_saved' = IF r.keep THEN lightning_saved ELSE r.saved
    /\ call' = Done("apply_lightning_flash", NoArgs, "true")
    /\ pc' = "hold"
    /\ UNCHANGED <<brightness, lightning_indices, config, scenario, elapsed, hw, attempt>>

LoopNoFlash ==
    /\ pc = "lightning"
    /\ LET r == lightning_pulse(config.settings.do_lightning, leds, lightning_indices)
       IN  /\ ~ r.ret
           /\ leds' = r.leds
           /\ lightning_saved' = IF r.keep THEN lightning_saved ELSE r.saved
    /\ call' = Done("no_flash", NoArgs, "unit")
    /\ pc' = "sleep"
    /\ UNCHANGED <<brightness, lightning_indices, config, scenario, elapsed, hw, attempt>>

LoopRestore ==
    /\ pc = "hold"
    /\ Advance(FLASH_HOLD_MS)
    /\ leds' = restore_lightning(leds, lightning_saved)
    /\ call' = Done("restore_lightning", NoArgs, "unit")
    /\ pc' = "sleep"
    /\ UNCHANGED <<brightness, lightning_indices, lightning_saved, config, scenario, hw>>

LoopSleep ==
    /\ pc = "sleep"
    /\ Advance(TICK_SLEEP_MS)
    /\ call' = Done("sleep", NoArgs, "unit")
    /\ pc' = "check"
    /\ UNCHANGED <<leds, brightness, lightning_indices, lightning_saved, config, scenario, hw>>

NextLoop ==
    \/ \E io \in IoOutcomes : FetchSucceeds(io)
    \/ \E io \in IoOutcomes : FetchFails(io)
    \/ FetchNotDue
    \/ LoopFlash
    \/ LoopNoFlash
    \/ LoopRestore
    \/ LoopSleep

SpecLoop == InitLoop /\ [][NextLoop]_vars

----------------------------------------------------------------------------
(* Properties of the control loop (SpecLoop) *)

AllSlots(color) == \A i \in 1..Len(leds) : leds[i] = color

FetchedOk(c) == c.op = "fetch" /\ c.ret = Some("Ok")

\* C12: after a failed fetch every slot holds FETCH_ERROR, and this is so at
\* the end of every tick, pulse ticks included, until the next successful
\* fetch (only the 25 ms hold of a pulse shows another colour).
C12_FetchErrorStaysVisible ==
    (attempt.outcome = "err" /\ pc # "hold") => AllSlots(COLOR_FETCH_ERROR)

C12_Witness ==
    /\ attempt.outcome = "err"
    /\ pc = "sleep"
    /\ call.op = "restore_lightning"
    /\ lightning_indices = <<0>>
    /\ Len(leds) = MaxAirports
    /\ AllSlots(COLOR_FETCH_ERROR)

\* C13: after a failed fetch the next fetch is attempted at the first tick
\* that is at least 60 seconds after the failure, after every consecutive
\* failure alike, and these 60 seconds are strictly less than the configured
\* fetch interval.
C13_RetryShorterThanInterval ==
    [][/\ (attempt.outcome = "err" /\ pc = "check") =>
             ((call'.op = "fetch") <=> (attempt.since >= 60000))
       /\ (attempt'.outcome = "err") => (60000 < fetch_interval(config))]_vars

\* C14: the first step of the control loop is a fetch attempt, whatever the
\* configured interval: nothing is skipped, flashed or slept before it.
C14_FirstTickFetches ==
    [][(call.op = "run_main_loop") => (pc = "check" /\ call'.op = "fetch")]_vars

C14_Witness ==
    /\ call.op = "fetch"
    /\ call.ret = Some("Err")
    /\ config.airports = <<"LTNG", "KSFO">>
    /\ config.settings.request_interval_secs = 300
    /\ lightning_indices = <<>>
    /\ attempt.outcome = "err"
    /\ attempt.since = 0

\* C15: a successful fetch sets the last-fetch time to its completion; after
\* it no fetch is attempted at a tick where less than the interval has passed
\* since then, and one is attempted at the first tick where the interval has
\* passed; fetches are attempted at the check of a tick only.
C15_FetchWhenIntervalElapsed ==
    [][/\ FetchedOk(call') => (elapsed' = 0)
       /\ (call'.op = "fetch") => (pc = "check")
       /\ (attempt.outcome = "ok" /\ pc = "check") =>
             ((call'.op = "fetch") <=> (attempt.since >= fetch_interval(config)))]_vars

C15_Witness ==
    /\ attempt.outcome = "ok"
    /\ pc = "check"
    /\ config.settings.request_interval_secs = 60
    /\ attempt.since = 60000
    /\ elapsed = 60000

\* C16: a successful fetch leaves the buffer as the update pipeline would
\* write it on a blank buffer (no slot keeps an earlier colour), the indices
\* it installs are that update's, and the colour saved for each installed
\* index is the colour the update wrote; outside the hold of a pulse the
\* saved colours of a successful cycle are the colours of the buffer.
C16_UpdateBeforeInstall ==
    [][/\ FetchedOk(call') =>
             LET fresh == update_leds_from_metars(LedState_new(Len(leds)), config.airports,
                                                  metars_by_icao(call'.args.reports),
                                                  config.settings.wind_threshold_kt,
                                                  config.settings.do_winds)
             IN  /\ leds' = fresh.leds
                 /\ lightning_indices' = fresh.lightning
                 /\ Len(lightning_saved') = Len(fresh.lightning)
       /\ (attempt'.outcome = "ok" /\ pc' # "hold") =>
             \A k \in 1..Len(lightning_saved') :
                 /\ lightning_saved'[k][1] = lightning_indices'[k]
                 /\ lightning_saved'[k][2] = leds'[lightning_saved'[k][1] + 1]]_vars

C16_Witness ==
    /\ FetchedOk(call)
    /\ config.airports = <<"LTNG", "KSFO">>
    /\ lightning_indices = <<0, 1>>
    /\ lightning_saved = <<<<0, COLOR_VFR>>, <<1, COLOR_IFR>>>>
    /\ leds = <<COLOR_VFR, COLOR_IFR>>

\* C17: after every change of the buffer that should become visible (a
\* successful update, the fetch-failure fill, a flash, a restore) the strip
\* has been written with the brightness-scaled view of the buffer.
C17_StripFollowsBuffer ==
    (call.op \in {"fetch", "apply_lightning_flash", "restore_lightning"} /\ call.ret # None)
        => (hw = Some(brightness_scaled_buffer(leds, brightness)))

\* the report of a response that comes last among those of a code
LastReport(reports, code) ==
    reports[CHOOSE k \in 1..Len(reports) :
                /\ reports[k].icao_id = code
                /\ \A j \in (k + 1)..Len(reports) : reports[j].icao_id # code]

\* C20: the index of a response with several reports of one code has one
\* entry per code, the report that comes last in the response, and the colour
\* and the lightning flag of every slot of that (real) code are those of that
\* last report.
C20_LastDuplicateWins ==
    [][FetchedOk(call') =>
          LET r == call'.args.reports
              m == metars_by_icao(r)
              codes == {r[k].icao_id : k \in 1..Len(r)}
          IN  /\ DOMAIN m = codes
              /\ \A code \in codes : m[code] = LastReport(r, code)
              /\ \A i \in 0..(Len(leds) - 1) :
                    (config.airports[i + 1] \in codes \ RecognizedSpecialCodes) =>
                        LET last == LastReport(r, config.airports[i + 1])
                        IN  /\ leds'[i + 1] =
                                  flight_category_color(last.flt_cat, last.wspd, last.wgst,
                                                        config.settings.wind_threshold_kt,
                                                        config.settings.do_winds)
                            /\ (i \in Range(lightning_indices')) <=> has_thunderstorm(last)]_vars

C20_Witness ==
    /\ FetchedOk(call)
    /\ Len(call.args.reports) = 2
    /\ call.args.reports[1] = MetarReport("KSFO", Some("VFR"), Some(30), None, None)
    /\ call.args.reports[2].icao_id = "KSFO"
    /\ call.args.reports[2].flt_cat = Some("IFR")
    /\ config.airports = <<"KSFO">>
    /\ leds = <<COLOR_IFR>>
    /\ lightning_indices = <<0>>

\* the fetch of the step is the one a malformed body fails
MalformedBody(c) ==
    /\ c.op = "fetch"
    /\ c.args.io # None
    /\ c.args.io[1].body # None
    /\ ~ c.args.io[1].body[1].well_formed

\* the step leaves what a failed fetch leaves: nothing of the response in the
\* buffer, every slot FETCH_ERROR, the overlay as it was, the retry due 60
\* seconds later, and the loop at its lightning step
FailureOutcome ==
    /\ call'.ret = Some("Err")
    /\ Len(leds') = Len(leds)
    /\ \A i \in 1..Len(leds') : leds'[i] = COLOR_FETCH_ERROR
    /\ lightning_indices' = lightning_indices
    /\ lightning_saved' = lightning_saved
    /\ elapsed' = fetch_interval(config) - 60000
    /\ attempt'.outcome = "err"
    /\ pc' = "lightning"

\* C21: with no real airport code (no airports, or special codes only) fetch
\* returns the empty success without a request, so no cycle fails, every due
\* cycle runs the update, and every slot holds the colour of its special
\* code.
C21_EmptyCodesNeverFail ==
    [][(metar_airport_codes(config.airports) = <<>>) =>
          /\ attempt'.outcome # "err"
          /\ (call'.op = "fetch") =>
                /\ call'.ret = Some("Ok")
                /\ call'.args.reports = <<>>
                /\ call'.args.io = None
                /\ \A i \in 0..(Len(leds') - 1) :
                      leds'[i + 1] = LegendColor(config.airports[i + 1])
          /\ (pc = "check" /\ elapsed >= fetch_interval(config)) => (call'.op = "fetch")]_vars

C21_Witness ==
    /\ FetchedOk(call)
    /\ call.args.io = None
    /\ config.airports = <<"LTNG", "WBNK">>
    /\ leds = <<COLOR_VFR, COLOR_UNKNOWN>>
    /\ lightning_indices = <<0>>

\* C22: a body that does not parse gives the loop the outcome of any other
\* fetch failure: no slot is written from the body, the whole buffer is
\* FETCH_ERROR, the 60-second retry is scheduled and the loop goes on.
C22_ParseErrorIsFetchFailure ==
    [][/\ MalformedBody(call') => (call'.args.err = Some("Parse") /\ FailureOutcome)
       /\ (call'.op = "fetch" /\ call'.args.err # None) => FailureOutcome]_vars

C22_Witness ==
    /\ MalformedBody(call)
    /\ call.args.io[1].body[1].reports # <<>>
    /\ call.args.err = Some("Parse")
    /\ config.airports = <<"KSFO", "LTNG">>
    /\ attempt.outcome = "err"
    /\ lightning_indices = <<0, 1>>
    /\ AllSlots(COLOR_FETCH_ERROR)

\* no slot shows the colour of a flash
NoSlotFlashed == \A i \in 1..Len(leds) : leds[i] # COLOR_LIGHTNING

\* C29: in the loop a flash is followed by its restore in the same tick and
\* before the next fetch check, a tick has at most one pulse, and at the end
\* of every tick the buffer is what the last fetch outcome wrote, with no
\* slot at the LIGHTNING colour.
C29_PulseIsNetZero ==
    [][/\ (call'.op = "apply_lightning_flash") => (pc = "lightning" /\ pc' = "hold")
       /\ (pc = "hold") => (call'.op = "restore_lightning" /\ pc' = "sleep")
       /\ (pc = "sleep") => (pc' = "check")
       /\ (pc' \in {"sleep", "check"}) =>
             /\ NoSlotFlashed'
             /\ (attempt'.outcome # "none") => (leds' = attempt'.wrote)]_vars

C29_Witness ==
    /\ pc = "sleep"
    /\ call.op = "restore_lightning"
    /\ attempt.outcome = "ok"
    /\ config.airports = <<"KSFO", "LTNG">>
    /\ lightning_indices = <<0, 1>>
    /\ leds = <<COLOR_IFR, COLOR_VFR>>
    /\ attempt.wrote = leds

\* C30: with do_lightning disabled no slot ever holds the LIGHTNING colour,
\* also when lightning indices are installed; with it enabled and indices
\* installed there is a pulse in every tick, after a fetch of either outcome
\* and in a tick without one.
C30_PulseOnlyWhenEnabled ==
    [][/\ (~ config.settings.do_lightning) => (NoSlotFlashed /\ NoSlotFlashed')
       /\ (pc = "lightning" /\ config.settings.do_lightning /\ lightning_indices # <<>>) =>
             (call'.op = "apply_lightning_flash" /\ ~ NoSlotFlashed')]_vars

C30_Witness ==
    /\ ~ config.settings.do_lightning
    /\ pc = "sleep"
    /\ call.op = "no_flash"
    /\ lightning_indices = <<0, 1>>
    /\ config.airports = <<"KSFO", "LTNG">>
    /\ attempt.outcome = "err"
    /\ NoSlotFlashed

\* during the hold of a pulse the installed slots, and only they, show the
\* flash over the fetch-error colour
OutagePulseShown ==
    \A i \in 0..(Len(leds') - 1) :
        leds'[i + 1] = IF i \in Range(lightning_indices') THEN COLOR_LIGHTNING
                       ELSE COLOR_FETCH_ERROR

\* C31: a failed fetch leaves the installed lightning indices as they were,
\* and only a successful fetch ever changes them; during the outage, with
\* do_lightning enabled and indices installed, every tick flashes exactly the
\* installed slots from FETCH_ERROR to LIGHTNING and puts FETCH_ERROR back.
C31_OutageKeepsPulsing ==
    [][/\ (call'.op = "fetch" /\ call'.ret = Some("Err")) =>
             (lightning_indices' = lightning_indices /\ attempt'.outcome = "err")
       /\ (lightning_indices' # lightning_indices) => FetchedOk(call')
       /\ (attempt'.outcome = "err" /\ config.settings.do_lightning
              /\ lightning_indices' # <<>>) =>
             /\ (pc = "lightning") =>
                   (call'.op = "apply_lightning_flash" /\ AllSlots(COLOR_FETCH_ERROR)
                      /\ OutagePulseShown)
             /\ (pc = "hold") =>
                   (call'.op = "restore_lightning" /\ AllSlots(COLOR_FETCH_ERROR)')]_vars

C31_Witness ==
    /\ attempt.outcome = "err"
    /\ attempt.since >= TICK_SLEEP_MS
    /\ config.settings.do_lightning
    /\ config.airports = <<"KSFO", "LTNG">>
    /\ lightning_indices = <<1>>
    /\ pc = "hold"
    /\ leds = <<COLOR_FETCH_ERROR, COLOR_LIGHTNING>>

\* SpecLoopFair: the loop is one thread whose fetch (bounded by its read
\* timeout) and sleeps return, so some step of the loop is always taken.
\* The intervals are those of a minute or so, whose cycles are a dozen
\* ticks long, and the network fails, sends a malformed body, or sends at
\* most one report.
MaxLiveIntervalSecs == 65

LiveIoOutcomes ==
    {IoFailure("Connection")}
    \cup {IoBody(p) : p \in MalformedPayloads}
    \cup {IoBody(Payload(TRUE, r)) : r \in SeqsUpTo(ResponseReports, 1)}

InitLoopFair ==
    /\ InitLoop
    /\ config.settings.request_interval_secs <= MaxLiveIntervalSecs

NextLoopFair ==
    \/ \E io \in LiveIoOutcomes : FetchSucceeds(io)
    \/ \E io \in LiveIoOutcomes : FetchFails(io)
    \/ FetchNotDue
    \/ LoopFlash
    \/ LoopNoFlash
    \/ LoopRestore
    \/ LoopSleep

SpecLoopFair == InitLoopFair /\ [][NextLoopFair]_vars /\ WF_vars(NextLoopFair)

\* C23: the loop never stops: after a success and after any number of
\* failures in a row it comes back to the check of a tick, and a fetch is
\* attempted again and again for ever.
C23_LoopKeepsFetching ==
    /\ []<>(pc = "check")
    /\ []<>(call.op = "fetch" /\ attempt.since = 0)
    /\ (attempt.outcome = "err") ~> (pc = "check" /\ elapsed >= fetch_interval(config))

C23_Witness ==
    /\ pc = "check"
    /\ attempt.outcome = "err"
    /\ attempt.since >= 60000
    /\ elapsed >= fetch_interval(config)
    /\ config.settings.request_interval_secs = 65
    /\ AllSlots(COLOR_FETCH_ERROR)
    /\ Len(leds) = MaxAirports

----------------------------------------------------------------------------
(* Fetch URL.  Text is a sequence of one-character strings.                *)

METAR_BASE_URL ==
    <<"h", "t", "t", "p", "s", ":", "/", "/", "a", "v", "i", "a", "t", "i", "o", "n",
      "w", "e", "a", "t", "h", "e", "r", ".", "g", "o", "v", "/", "a", "p", "i", "/",
      "d", "a", "t", "a", "/", "m", "e", "t", "a", "r", "?", "f", "o", "r", "m", "a",
      "t", "=", "j", "s", "o", "n", "&", "i", "d", "s", "=">>

\* [&str]::join
RECURSIVE join(_, _)
join(codes, sep) ==
    IF codes = <<>> THEN <<>>
    ELSE IF Len(codes) = 1 THEN Head(codes)
    ELSE Head(codes) \o sep \o join(Tail(codes), sep)

\* every code pushed with a comma after it: the last one too
RECURSIVE build_metar_url_trailing_comma(_)
build_metar_url_trailing_comma(codes) ==
    IF codes = <<>> THEN METAR_BASE_URL
    ELSE build_metar_url_trailing_comma(SubSeq(codes, 1, Len(codes) - 1))
         \o codes[Len(codes)] \o <<",">>

build_metar_url(codes) == METAR_BASE_URL \o join(codes, <<",">>)

\* the value of the query's ids parameter: the text after the base URL
ids_value(url) == SubSeq(url, Len(METAR_BASE_URL) + 1, Len(url))

\* the pieces of text between the separators, in order; text without a
\* separator is one piece
RECURSIVE split(_, _)
split(text, sep) ==
    IF \A k \in 1..Len(text) : text[k] # sep THEN <<text>>
    ELSE LET k == CHOOSE j \in 1..Len(text) :
                      text[j] = sep /\ \A h \in 1..(j - 1) : text[h] # sep
         IN  <<SubSeq(text, 1, k - 1)>> \o split(SubSeq(text, k + 1, Len(text)), sep)

\* the code list a URL asks for
parse_ids(url) == split(ids_value(url), ",")

MaxUrlCodes == 3

KSFO == <<"K", "S", "F", "O">>

KLAX == <<"K", "L", "A", "X">>

KJFK == <<"K", "J", "F", "K">>

\* the codes of the URL test, a one-letter code, an empty code and a code
\* with a comma in it
UrlCodes == {KSFO, KLAX, KJFK, <<"K">>, <<>>, <<"K", ",", "S">>}

UrlCodeLists == SeqsUpTo(UrlCodes, MaxUrlCodes)

\* SpecUrl: the URL is built for a code list and its ids value is split again
InitUrl ==
    /\ config = DefaultConfig
    /\ leds = <<>>
    /\ brightness = 0
    /\ lightning_indices = <<>>
    /\ lightning_saved = <<>>
    /\ \E codes \in UrlCodeLists : call = Pending("build_metar_url", [codes |-> codes])
    /\ scenario = NoScenario
    /\ NotInLoop

BuildMetarUrl ==
    /\ call.op = "build_metar_url" /\ call.ret = None
    /\ call' = Done("build_metar_url", call.args, build_metar_url(call.args.codes))
    /\ UNCHANGED <<leds, brightness, lightning_indices, lightning_saved, config, scenario, loopvars>>

ParseIds ==
    /\ call.op = "build_metar_url" /\ call.ret # None
    /\ call' = Done("parse_ids", [codes |-> call.args.codes, url |-> call.ret[1]],
                    parse_ids(call.ret[1]))
    /\ UNCHANGED <<leds, brightness, lightning_indices, lightning_saved, config, scenario, loopvars>>

NextUrl ==
    \/ BuildMetarUrl
    \/ ParseIds

SpecUrl == InitUrl /\ [][NextUrl]_vars

\* the URL the test expects for KSFO, KLAX, KJFK
ExampleUrl ==
    <<"h", "t", "t", "p", "s", ":", "/", "/", "a", "v", "i", "a", "t", "i", "o", "n",
      "w", "e", "a", "t", "h", "e", "r", ".", "g", "o", "v", "/", "a", "p", "i", "/",
      "d", "a", "t", "a", "/", "m", "e", "t", "a", "r", "?", "f", "o", "r", "m", "a",
      "t", "=", "j", "s", "o", "n", "&", "i", "d", "s", "=", "K", "S", "F", "O", ",",
      "K", "L", "A", "X", ",", "K", "J", "F", "K">>

\* a code of an airport has no comma in it
IsAirportCode(code) == \A k \in 1..Len(code) : code[k] # ","

\* C24: for a non-empty list of airport codes the URL is the base URL
\* followed by the codes joined with commas, and splitting its ids value on
\* commas gives the same codes in the same order; KSFO, KLAX, KJFK give the
\* URL of the test.
C24_UrlRoundTrip ==
    /\ (Returned("parse_ids")
          /\ call.args.codes # <<>>
          /\ \A k \in 1..Len(call.args.codes) : IsAirportCode(call.args.codes[k]))
         => /\ call.ret[1] = call.args.codes
            /\ SubSeq(call.args.url, 1, Len(METAR_BASE_URL)) = METAR_BASE_URL
    /\ (Returned("build_metar_url") /\ call.args.codes = <<KSFO, KLAX, KJFK>>)
         => (call.ret[1] = ExampleUrl)

C24_Witness ==
    /\ Returned("parse_ids")
    /\ call.args.codes = <<KSFO, KLAX, KJFK>>
    /\ call.args.url = ExampleUrl
    /\ call.ret[1] = <<KSFO, KLAX, KJFK>>

----------------------------------------------------------------------------
(* SpecConfig: from_toml on a parsed document with any interval and wind   *)
(* threshold, and validate applied again to its result.                    *)

MaxRawInterval == 3700

MaxRawWind == 110

\* every interval around the range with the wind values of the tests, and
\* every wind threshold around the range with the intervals of the tests
RawSettings ==
    {Settings(20, i, w, TRUE, TRUE) :
        i \in (0..MaxRawInterval) \cup {99999}, w \in {0, 25, 100, 101, 200}}
    \cup {Settings(20, i, w, TRUE, TRUE) :
        i \in {10, 900, 99999}, w \in (0..MaxRawWind) \cup {200}}

InitConfig ==
    /\ \E st \in RawSettings : config = Config(st, ExampleAirports)
    /\ leds = <<>>
    /\ brightness = 0
    /\ lightning_indices = <<>>
    /\ lightning_saved = <<>>
    /\ call = Pending("from_toml", NoArgs)
    /\ scenario = NoScenario
    /\ NotInLoop

FromToml ==
    /\ call.op = "from_toml" /\ call.ret = None
    /\ config' = from_toml(config)
    /\ call' = Done("from_toml", [parsed |-> config], "Ok")
    /\ UNCHANGED <<leds, brightness, lightning_indices, lightning_saved, scenario, loopvars>>

Validate ==
    /\ call.ret # None
    /\ config' = validate(config)
    /\ call' = Done("validate", [before |-> config], "unit")
    /\ UNCHANGED <<leds, brightness, lightning_indices, lightning_saved, scenario, loopvars>>

NextConfig ==
    \/ FromToml
    \/ Validate

SpecConfig == InitConfig /\ [][NextConfig]_vars

\* C18: the Config that from_toml returns has its interval in [60, 3600] and
\* its wind threshold in [0, 100]: an in-range input is kept, one below the
\* range becomes the lower bound and one above the upper bound (10 gives 60,
\* 99999 gives 3600, wind 200 gives 100), and the document is not rejected.
C18_FromTomlClamps ==
    Returned("from_toml") =>
        LET raw == call.args.parsed.settings
            out == config.settings
        IN  /\ call.ret[1] = "Ok"
            /\ out.request_interval_secs \in 60..3600
            /\ out.wind_threshold_kt \in 0..100
            /\ out.request_interval_secs =
                  (IF raw.request_interval_secs < 60 THEN 60
                   ELSE IF raw.request_interval_secs > 3600 THEN 3600
                   ELSE raw.request_interval_secs)
            /\ out.wind_threshold_kt =
                  (IF raw.wind_threshold_kt > 100 THEN 100 ELSE raw.wind_threshold_kt)
            /\ (raw.request_interval_secs = 10) => (out.request_interval_secs = 60)
            /\ (raw.request_interval_secs = 99999) => (out.request_interval_secs = 3600)
            /\ (raw.wind_threshold_kt = 200) => (out.wind_threshold_kt = 100)

C18_Witness ==
    /\ Returned("from_toml")
    /\ call.args.parsed.settings.request_interval_secs = 99999
    /\ call.args.parsed.settings.wind_threshold_kt = 200
    /\ config.settings.request_interval_secs = 3600
    /\ config.settings.wind_threshold_kt = 100

\* C19: validate applied to a Config that is already validated changes no
\* field.
C19_ValidateIdempotent ==
    [][(call'.op = "validate") => (config' = config)]_vars

C19_Witness ==
    /\ Returned("validate")
    /\ call.args.before = config
    /\ config.settings.request_interval_secs = 3600
    /\ config.settings.wind_threshold_kt = 100

====
